---- MODULE Spec2Model ----
(***************************************************************************)
(* Layered codegraph tooling: the schema / nodes / edges parsers, the      *)
(* validator (validate_codegraph.py), the triage engine                    *)
(* (triage_entrypoints.py) and the workspace scaffolder                    *)
(* (init_investigation_workspace.py).                                      *)
(*                                                                         *)
(* Text is modelled at character level: a string is a sequence of code     *)
(* points, a document is a sequence of lines (what splitlines() returns).  *)
(***************************************************************************)
EXTENDS Integers, Sequences, FiniteSets, TLC

VARIABLES
    schema_lines,   \* content of codegraph/00_schema.md, as a sequence of lines
    nodes_lines,    \* content of codegraph/01_nodes.md
    edges_lines,    \* content of codegraph/02_edges.md
    line_idx,       \* parse_schema: number of lines the loop has consumed
    section,        \* parse_schema: the local `section`
    node_types,     \* parse_schema: the local `node_types`
    edge_types,     \* parse_schema: the local `edge_types`
    v_nodes,        \* result of validate_codegraph.parse_nodes (dict keys), or NotRun
    t_nodes,        \* result of triage_entrypoints.parse_nodes, or NotRun
    validation,     \* result of validate(): errors, return code, or NotRun
    cli,            \* triage command line: limit and the label options
    out,            \* triage main() results, one slot per flag combination
    fs,             \* scaffolder: the file system, path -> entry
    scaffold_runs   \* scaffolder: what each run so far created and reported

vars ==
    <<schema_lines, nodes_lines, edges_lines, line_idx, section, node_types,
      edge_types, v_nodes, t_nodes, validation, cli, out, fs, scaffold_runs>>

\* a result slot is <<>> before the run and <<result>> after it
NotRun == <<>>
Ran(x) == <<x>>
None == "None"

----------------------------------------------------------------------------
(* Bounds of the model *)

MaxSchemaLines == 3
MaxNodeLines == 2
MaxEdgeLines == 2

----------------------------------------------------------------------------
(* Strings: the str methods and the regular expression the parsers use *)

\* whitespace as matched by str.strip() and by \s (space and tab occur here)
IsSpace(c) == c \in {32, 9}

RECURSIVE LStrip(_)
LStrip(s) ==
    IF s = <<>> THEN s
    ELSE IF IsSpace(Head(s)) THEN LStrip(Tail(s)) ELSE s

RECURSIVE RStrip(_)
RStrip(s) ==
    IF s = <<>> THEN s
    ELSE IF IsSpace(s[Len(s)]) THEN RStrip(SubSeq(s, 1, Len(s) - 1)) ELSE s

\* str.strip()
Strip(s) == RStrip(LStrip(s))

\* str.startswith(p)
StartsWith(s, p) == Len(p) <= Len(s) /\ SubSeq(s, 1, Len(p)) = p

\* the position of the first occurrence of p in s at or after i, 0 if none
RECURSIVE FindFrom(_, _, _)
FindFrom(s, p, i) ==
    IF i + Len(p) - 1 > Len(s) THEN 0
    ELSE IF \A j \in 1..Len(p) : s[i + j - 1] = p[j] THEN i
    ELSE FindFrom(s, p, i + 1)

\* s.find(p) + 1
Find(s, p) == FindFrom(s, p, 1)

\* p in s
Contains(s, p) == Find(s, p) > 0

\* the text before and after position i, where sep occurs
CutAt(s, sep, i) == <<SubSeq(s, 1, i - 1), SubSeq(s, i + Len(sep), Len(s))>>

\* s.split(sep, 1) when sep occurs in s: the text before and after the first sep
SplitOnce(s, sep) == CutAt(s, sep, Find(s, sep))

\* s.split(sep) from the first occurrence i of sep on (0: no occurrence)
RECURSIVE SplitAt(_, _, _)
SplitAt(s, sep, i) ==
    IF i = 0 THEN <<s>>
    ELSE <<SubSeq(s, 1, i - 1)>>
         \o SplitAt(SubSeq(s, i + Len(sep), Len(s)), sep,
                    Find(SubSeq(s, i + Len(sep), Len(s)), sep))

\* s.split(sep): every piece
Split(s, sep) == SplitAt(s, sep, Find(s, sep))

\* str.lower() on ASCII
Lower(s) == [i \in 1..Len(s) |-> IF s[i] \in 65..90 THEN s[i] + 32 ELSE s[i]]

\* a < b for str: code point by code point, a proper prefix is smaller
RECURSIVE StrLess(_, _)
StrLess(a, b) ==
    IF b = <<>> THEN FALSE
    ELSE IF a = <<>> THEN TRUE
    ELSE IF Head(a) # Head(b) THEN Head(a) < Head(b)
    ELSE StrLess(Tail(a), Tail(b))

\* length of the match of _BULLET_RE = ^\s*-\s+ at the start of line, 0 if none
BulletMatchLen(line) ==
    LET k == Len(line) - Len(LStrip(line))
        rest == SubSeq(line, k + 2, Len(line))
    IN  IF k + 2 <= Len(line) /\ line[k + 1] = 45 /\ IsSpace(line[k + 2])
        THEN k + 1 + (Len(rest) - Len(LStrip(rest)))
        ELSE 0

\* _BULLET_RE.match(line)
BulletMatch(line) == BulletMatchLen(line) > 0

\* _BULLET_RE.sub("", line).strip()
BulletToken(line) ==
    Strip(SubSeq(line, BulletMatchLen(line) + 1, Len(line)))

\* all sequences over S of length at most n
SeqsUpTo(S, n) == UNION {[1..k -> S] : k \in 0..n}

----------------------------------------------------------------------------
(* String literals of the sources *)

HDR_NODE_TYPES ==  \* "## Node Types"
    <<35, 35, 32, 78, 111, 100, 101, 32, 84, 121, 112, 101, 115>>
HDR_EDGE_TYPES ==  \* "## Edge Types"
    <<35, 35, 32, 69, 100, 103, 101, 32, 84, 121, 112, 101, 115>>
HDR_PREFIX ==  \* "## "
    <<35, 35, 32>>
HTTP ==  \* "http://"
    <<104, 116, 116, 112, 58, 47, 47>>
HTTPS ==  \* "https://"
    <<104, 116, 116, 112, 115, 58, 47, 47>>
COLON ==  \* ":"
    <<58>>
PIPE ==  \* "|"
    <<124>>
COMMA ==  \* ","
    <<44>>
ARROW ==  \* "->"
    <<45, 62>>
EQUALS ==  \* "="
    <<61>>

----------------------------------------------------------------------------
(* Schema parser: validate_codegraph.parse_schema *)

\* lines a schema document is drawn from
L_NODE_TYPES ==  \* "## Node Types"
    <<35, 35, 32, 78, 111, 100, 101, 32, 84, 121, 112, 101, 115>>
L_EDGE_TYPES ==  \* "## Edge Types"
    <<35, 35, 32, 69, 100, 103, 101, 32, 84, 121, 112, 101, 115>>
L_LABEL_MAP ==  \* "## Label Map"
    <<35, 35, 32, 76, 97, 98, 101, 108, 32, 77, 97, 112>>
L_FUNC ==  \* "- FUNC"
    <<45, 32, 70, 85, 78, 67>>
L_READS_INDENTED ==  \* "  -  READS "
    <<32, 32, 45, 32, 32, 82, 69, 65, 68, 83, 32>>
L_EMPTY_BULLET ==  \* "- "
    <<45, 32>>

SchemaLines ==
    {L_NODE_TYPES, L_EDGE_TYPES, L_LABEL_MAP, L_FUNC, L_READS_INDENTED,
     L_EMPTY_BULLET}

\* the loop's state before the first line
SchemaStart == [section |-> None, node_types |-> {}, edge_types |-> {}]

\* one iteration of the loop of parse_schema on `line`
SchemaStep(st, line) ==
    LET stripped == Strip(line)
        label == BulletToken(line)
    IN  IF stripped = HDR_NODE_TYPES THEN [st EXCEPT !.section = "nodes"]
        ELSE IF stripped = HDR_EDGE_TYPES THEN [st EXCEPT !.section = "edges"]
        ELSE IF ~BulletMatch(line) THEN st
        ELSE IF label = <<>> THEN st
        ELSE IF st.section = "nodes"
             THEN [st EXCEPT !.node_types = @ \cup {label}]
        ELSE IF st.section = "edges"
             THEN [st EXCEPT !.edge_types = @ \cup {label}]
        ELSE st

\* parse_schema: the loop over all lines
RECURSIVE SchemaFold(_, _)
SchemaFold(st, lines) ==
    IF lines = <<>> THEN st
    ELSE SchemaFold(SchemaStep(st, Head(lines)), Tail(lines))

ParseSchema(lines) == SchemaFold(SchemaStart, lines)

\* variables the schema parser does not touch
schemaFrame ==
    <<nodes_lines, edges_lines, v_nodes, t_nodes, validation, cli, out, fs,
      scaffold_runs>>

\* the parts of the state a specification leaves out stay at these values
IdleSchemaParser ==
    /\ line_idx = 0
    /\ section = None
    /\ node_types = {}
    /\ edge_types = {}

IdleNodeParsers == v_nodes = NotRun /\ t_nodes = NotRun

IdleValidator == validation = NotRun

IdleTriage == cli = <<>> /\ out = <<>>

IdleScaffold == fs = <<>> /\ scaffold_runs = <<>>

InitSchema ==
    /\ schema_lines \in SeqsUpTo(SchemaLines, MaxSchemaLines)
    /\ nodes_lines = <<>>
    /\ edges_lines = <<>>
    /\ IdleSchemaParser
    /\ IdleNodeParsers
    /\ IdleValidator
    /\ IdleTriage
    /\ IdleScaffold

\* parse_schema consumes the next line of the document
ParseSchemaLine ==
    /\ line_idx < Len(schema_lines)
    /\ LET st == SchemaStep([section |-> section, node_types |-> node_types,
                             edge_types |-> edge_types],
                            schema_lines[line_idx + 1])
       IN  /\ section' = st.section
           /\ node_types' = st.node_types
           /\ edge_types' = st.edge_types
    /\ line_idx' = line_idx + 1
    /\ UNCHANGED <<schema_lines>>
    /\ UNCHANGED schemaFrame

NextSchema == ParseSchemaLine

SpecSchema == InitSchema /\ [][NextSchema]_vars

\* a line that starts with "## " after trimming and is neither recognized marker
IsOtherHeader(line) ==
    /\ StartsWith(Strip(line), HDR_PREFIX)
    /\ Strip(line) # HDR_NODE_TYPES
    /\ Strip(line) # HDR_EDGE_TYPES

IsMarker(line) == Strip(line) \in {HDR_NODE_TYPES, HDR_EDGE_TYPES}

\* line i follows an unrecognized "## " header with no recognized marker between
AfterOtherHeader(lines, i) ==
    \E j \in 1..(i - 1) :
        /\ IsOtherHeader(lines[j])
        /\ \A k \in (j + 1)..(i - 1) : ~IsMarker(lines[k])

\* C2: the section starts as none, an unrecognized "## " line resets it to
\* none, and a bullet that follows such a header with no recognized marker in
\* between is added to neither set.
C2_OtherHeaderResets ==
    [][ /\ (line_idx = 0 => section = None)
        /\ (line_idx < Len(schema_lines) =>
              LET line == schema_lines[line_idx + 1] IN
              /\ (IsOtherHeader(line) => section' = None)
              /\ (BulletMatch(line) /\ AfterOtherHeader(schema_lines, line_idx + 1)
                    => node_types' = node_types /\ edge_types' = edge_types))
      ]_vars

----------------------------------------------------------------------------
(* Nodes parsers: validate_codegraph.parse_nodes, triage_entrypoints.parse_nodes *)

\* lines a nodes document is drawn from
N_FUNC_A ==  \* "- FUNC:a"
    <<45, 32, 70, 85, 78, 67, 58, 97>>
N_FUNC_B ==  \* "- FUNC:b"
    <<45, 32, 70, 85, 78, 67, 58, 98>>
N_ASSET_U ==  \* "- ASSET:u"
    <<45, 32, 65, 83, 83, 69, 84, 58, 117>>
N_URL ==  \* "- https://x"
    <<45, 32, 104, 116, 116, 112, 115, 58, 47, 47, 120>>
N_URL_PLAIN ==  \* "- http://x"
    <<45, 32, 104, 116, 116, 112, 58, 47, 47, 120>>
N_NOCOLON ==  \* "- junk"
    <<45, 32, 106, 117, 110, 107>>
N_INDENTED ==  \* " -  FUNC:a "
    <<32, 45, 32, 32, 70, 85, 78, 67, 58, 97, 32>>
N_NOSPACE ==  \* "-FUNC:b"
    <<45, 70, 85, 78, 67, 58, 98>>

NodeLines ==
    {N_FUNC_A, N_ASSET_U, N_URL, N_URL_PLAIN, N_NOCOLON, N_INDENTED, N_NOSPACE}

\* token.startswith(("http://", "https://"))
IsUrl(token) == StartsWith(token, HTTP) \/ StartsWith(token, HTTPS)

\* the loop body of validate_codegraph.parse_nodes: nodes[token] = node_type
ValidatorNodesStep(nodes, line) ==
    LET token == BulletToken(line) IN
    IF ~BulletMatch(line) THEN nodes
    ELSE IF token = <<>> \/ IsUrl(token) THEN nodes
    ELSE IF ~Contains(token, COLON) THEN nodes
    ELSE [t \in DOMAIN nodes \cup {token} |->
            IF t = token THEN SplitOnce(token, COLON)[1] ELSE nodes[t]]

\* validate_codegraph.parse_nodes: the dict token -> node type
RECURSIVE ValidatorNodesFold(_, _)
ValidatorNodesFold(nodes, lines) ==
    IF lines = <<>> THEN nodes
    ELSE ValidatorNodesFold(ValidatorNodesStep(nodes, Head(lines)), Tail(lines))

ValidatorParseNodes(lines) == ValidatorNodesFold(<<>>, lines)

\* the loop body of triage_entrypoints.parse_nodes: nodes.add(token)
TriageNodesStep(nodes, line) ==
    LET token == BulletToken(line) IN
    IF ~BulletMatch(line) THEN nodes
    ELSE IF token = <<>> \/ ~Contains(token, COLON) THEN nodes
    ELSE nodes \cup {token}

\* triage_entrypoints.parse_nodes: the set of tokens
RECURSIVE TriageNodesFold(_, _)
TriageNodesFold(nodes, lines) ==
    IF lines = <<>> THEN nodes
    ELSE TriageNodesFold(TriageNodesStep(nodes, Head(lines)), Tail(lines))

TriageParseNodes(lines) == TriageNodesFold({}, lines)

InitNodes ==
    /\ nodes_lines \in SeqsUpTo(NodeLines, MaxNodeLines)
    /\ schema_lines = <<>>
    /\ edges_lines = <<>>
    /\ IdleSchemaParser
    /\ IdleNodeParsers
    /\ IdleValidator
    /\ IdleTriage
    /\ IdleScaffold

\* the validator reads the nodes document
RunValidatorParseNodes ==
    /\ v_nodes' = Ran(DOMAIN ValidatorParseNodes(nodes_lines))
    /\ UNCHANGED <<schema_lines, nodes_lines, edges_lines, line_idx, section,
                   node_types, edge_types, t_nodes, validation, cli, out, fs,
                   scaffold_runs>>

\* the triage engine reads the nodes document
RunTriageParseNodes ==
    /\ t_nodes' = Ran(TriageParseNodes(nodes_lines))
    /\ UNCHANGED <<schema_lines, nodes_lines, edges_lines, line_idx, section,
                   node_types, edge_types, v_nodes, validation, cli, out, fs,
                   scaffold_runs>>

NextNodes == RunValidatorParseNodes \/ RunTriageParseNodes

SpecNodes == InitNodes /\ [][NextNodes]_vars

\* C7: both parsers produce the same node set from the same nodes document,
\* and neither set holds a URL bullet or a bullet without a colon.
C7_ParsersAgree ==
    (v_nodes # NotRun /\ t_nodes # NotRun) =>
        /\ v_nodes[1] = t_nodes[1]
        /\ \A n \in v_nodes[1] \cup t_nodes[1] : ~IsUrl(n) /\ Contains(n, COLON)

----------------------------------------------------------------------------
(* Edges parsers: parse_edges of both scripts *)

\* fields of the edge a line holds, as <<[edge_type, src, dst]>>, or <<>> when
\* the line is skipped
EdgeFields(line) ==
    LET token == BulletToken(line)
        pieces == Split(token, PIPE)
        parts == [i \in 1..Len(pieces) |-> Strip(pieces[i])]
        link == parts[2]
        ends == SplitOnce(link, ARROW)
        src == Strip(ends[1])
        dst == Strip(ends[2])
    IN  IF ~BulletMatch(line) THEN <<>>
        ELSE IF token = <<>> THEN <<>>
        ELSE IF Len(parts) < 2 THEN <<>>
        ELSE IF ~Contains(link, ARROW) THEN <<>>
        ELSE IF src = <<>> \/ dst = <<>> THEN <<>>
        ELSE <<[edge_type |-> parts[1], src |-> src, dst |-> dst]>>

\* validate_codegraph.parse_edges on lines line_no, line_no + 1, ...
RECURSIVE ValidatorEdgesFrom(_, _)
ValidatorEdgesFrom(lines, line_no) ==
    IF lines = <<>> THEN <<>>
    ELSE LET f == EdgeFields(Head(lines))
             rest == ValidatorEdgesFrom(Tail(lines), line_no + 1)
         IN  IF f = <<>> THEN rest
             ELSE <<[edge_type |-> f[1].edge_type, src |-> f[1].src,
                     dst |-> f[1].dst, raw |-> Head(lines),
                     line_no |-> line_no]>> \o rest

ValidatorParseEdges(lines) == ValidatorEdgesFrom(lines, 1)

\* triage_entrypoints.parse_edges on lines line_no, line_no + 1, ...
RECURSIVE TriageEdgesFrom(_, _)
TriageEdgesFrom(lines, line_no) ==
    IF lines = <<>> THEN <<>>
    ELSE LET f == EdgeFields(Head(lines))
             rest == TriageEdgesFrom(Tail(lines), line_no + 1)
         IN  IF f = <<>> THEN rest
             ELSE <<[edge_type |-> f[1].edge_type, src |-> f[1].src,
                     dst |-> f[1].dst, line_no |-> line_no]>> \o rest

TriageParseEdges(lines) == TriageEdgesFrom(lines, 1)

----------------------------------------------------------------------------
(* Validator: validate_codegraph.validate *)

\* the keys of a set of strings in ascending order: sorted()
RECURSIVE SortedAsc(_)
SortedAsc(S) ==
    IF S = {} THEN <<>>
    ELSE LET m == CHOOSE x \in S : \A y \in S \ {x} : StrLess(x, y)
         IN  <<m>> \o SortedAsc(S \ {m})

\* the first loop of validate over sorted(nodes.items()), from position i on
RECURSIVE NodeErrorsFrom(_, _, _, _)
NodeErrorsFrom(items, i, nodes, types) ==
    IF i > Len(items) THEN <<>>
    ELSE LET node == items[i]
             rest == NodeErrorsFrom(items, i + 1, nodes, types)
         IN  IF nodes[node] \notin types
             THEN <<[kind |-> "node type not in schema",
                     node_type |-> nodes[node], node |-> node]>> \o rest
             ELSE rest

\* the body of the second loop of validate: the errors one edge appends
EdgeErrorsShortCircuit(edge, nodes, types) ==
    IF edge.edge_type \notin types
    THEN <<[kind |-> "edge type not in schema", line_no |-> edge.line_no,
            what |-> edge.edge_type]>>
    ELSE IF edge.src \notin DOMAIN nodes
    THEN <<[kind |-> "missing src node", line_no |-> edge.line_no,
            what |-> edge.src]>>
    ELSE IF edge.dst \notin DOMAIN nodes
    THEN <<[kind |-> "missing dst node", line_no |-> edge.line_no,
            what |-> edge.dst]>>
    ELSE <<>>

EdgeErrors(edge, nodes, types) ==
    (IF edge.edge_type \notin types
     THEN <<[kind |-> "edge type not in schema", line_no |-> edge.line_no,
             what |-> edge.edge_type]>>
     ELSE <<>>)
    \o
    (IF edge.src \notin DOMAIN nodes
     THEN <<[kind |-> "missing src node", line_no |-> edge.line_no,
             what |-> edge.src]>>
     ELSE <<>>)
    \o
    (IF edge.dst \notin DOMAIN nodes
     THEN <<[kind |-> "missing dst node", line_no |-> edge.line_no,
             what |-> edge.dst]>>
     ELSE <<>>)

\* the second loop of validate, over the edges in file order
RECURSIVE AllEdgeErrors(_, _, _)
AllEdgeErrors(edges, nodes, types) ==
    IF edges = <<>> THEN <<>>
    ELSE EdgeErrors(Head(edges), nodes, types)
         \o AllEdgeErrors(Tail(edges), nodes, types)

\* validate(codegraph_dir): what it parsed, the error list, what it printed
\* and the value it returns
Validate(schema, nodesDoc, edgesDoc) ==
    LET st == ParseSchema(schema)
        nodes == ValidatorParseNodes(nodesDoc)
        edges == ValidatorParseEdges(edgesDoc)
        errors == NodeErrorsFrom(SortedAsc(DOMAIN nodes), 1, nodes, st.node_types)
                  \o AllEdgeErrors(edges, nodes, st.edge_types)
    IN  [node_types |-> st.node_types, edge_types |-> st.edge_types,
         nodes |-> nodes, edges |-> edges, errors |-> errors,
         stderr |-> IF errors # <<>> THEN <<"codegraph validation: FAIL">> \o errors
                    ELSE <<>>,
         stdout |-> IF errors # <<>> THEN <<>>
                    ELSE <<"codegraph validation: OK", Cardinality(DOMAIN nodes),
                           Len(edges)>>,
         rc |-> IF errors # <<>> THEN 1 ELSE 0]

\* bullets of a schema document
L_ASSET ==  \* "- ASSET"
    <<45, 32, 65, 83, 83, 69, 84>>
L_TRANSFERS ==  \* "- TRANSFERS"
    <<45, 32, 84, 82, 65, 78, 83, 70, 69, 82, 83>>

\* bullets listed under one section header of a validated schema
MaxTypeBullets == 1

\* schema documents given to validate: both sections, each with its bullets
ValidatorSchemas ==
    {<<L_NODE_TYPES>> \o nt \o <<L_EDGE_TYPES>> \o et :
        nt \in SeqsUpTo({L_FUNC, L_ASSET}, MaxTypeBullets),
        et \in SeqsUpTo({L_TRANSFERS}, MaxTypeBullets)}

\* lines an edges document is drawn from
E_TRANSFERS_A_U ==  \* "- TRANSFERS | FUNC:a -> ASSET:u"
    <<45, 32, 84, 82, 65, 78, 83, 70, 69, 82, 83, 32, 124, 32, 70, 85, 78,
      67, 58, 97, 32, 45, 62, 32, 65, 83, 83, 69, 84, 58, 117>>
E_READS_Z_R ==  \* "- READS | FUNC:z -> ROLE:r"
    <<45, 32, 82, 69, 65, 68, 83, 32, 124, 32, 70, 85, 78, 67, 58, 122, 32,
      45, 62, 32, 82, 79, 76, 69, 58, 114>>
E_TRANSFERS_Z_U ==  \* "- TRANSFERS | FUNC:z -> ASSET:u"
    <<45, 32, 84, 82, 65, 78, 83, 70, 69, 82, 83, 32, 124, 32, 70, 85, 78,
      67, 58, 122, 32, 45, 62, 32, 65, 83, 83, 69, 84, 58, 117>>
E_NOARROW ==  \* "- READS | onlyfoo"
    <<45, 32, 82, 69, 65, 68, 83, 32, 124, 32, 111, 110, 108, 121, 102,
      111, 111>>

ValidatorNodeLines == {N_FUNC_A, N_ASSET_U}
ValidatorEdgeLines == {E_TRANSFERS_A_U, E_READS_Z_R, E_TRANSFERS_Z_U, E_NOARROW}

InitValidate ==
    /\ schema_lines \in ValidatorSchemas
    /\ nodes_lines \in SeqsUpTo(ValidatorNodeLines, MaxNodeLines)
    /\ edges_lines \in SeqsUpTo(ValidatorEdgeLines, MaxEdgeLines)
    /\ IdleSchemaParser
    /\ IdleNodeParsers
    /\ IdleValidator
    /\ IdleTriage
    /\ IdleScaffold

\* one run of the validator on the three documents
RunValidate ==
    /\ validation' = Ran(Validate(schema_lines, nodes_lines, edges_lines))
    /\ UNCHANGED <<schema_lines, nodes_lines, edges_lines, line_idx, section,
                   node_types, edge_types, v_nodes, t_nodes, cli, out, fs,
                   scaffold_runs>>

NextValidate == RunValidate

SpecValidate == InitValidate /\ [][NextValidate]_vars

\* the substring of a node identifier before its first colon
TypeBeforeColon(n) ==
    SubSeq(n, 1, (CHOOSE i \in 1..Len(n) :
                    n[i] = 58 /\ \A j \in 1..(i - 1) : n[j] # 58) - 1)

\* the errors the claim lists for the edges, in file order: per edge the
\* violated ones of the three conditions, in the order type, src, dst
RECURSIVE ClaimedEdgeErrors(_, _, _)
ClaimedEdgeErrors(edges, nodeSet, types) ==
    IF edges = <<>> THEN <<>>
    ELSE LET e == Head(edges)
             cand == <<[kind |-> "edge type not in schema", line_no |-> e.line_no,
                        what |-> e.edge_type],
                       [kind |-> "missing src node", line_no |-> e.line_no,
                        what |-> e.src],
                       [kind |-> "missing dst node", line_no |-> e.line_no,
                        what |-> e.dst]>>
             viol == <<e.edge_type \notin types, e.src \notin nodeSet,
                       e.dst \notin nodeSet>>
             Pick(i) == IF viol[i] THEN <<cand[i]>> ELSE <<>>
         IN  Pick(1) \o Pick(2) \o Pick(3)
             \o ClaimedEdgeErrors(Tail(edges), nodeSet, types)

\* C1: the error list is the node errors in ascending identifier order, one
\* per node whose type is not in the schema, followed by the 0 to 3 errors of
\* each edge in file order; validate returns 1 iff the list is non-empty.
C1_ErrorList ==
    validation # NotRun =>
        LET v == validation[1]
            nodeSet == DOMAIN v.nodes
            bad == {n \in nodeSet : TypeBeforeColon(n) \notin v.node_types}
            k == Cardinality(bad)
        IN  /\ Len(v.errors) >= k
            /\ \A i \in 1..k :
                  /\ v.errors[i].kind = "node type not in schema"
                  /\ v.errors[i].node \in bad
                  /\ v.errors[i].node_type = TypeBeforeColon(v.errors[i].node)
            /\ \A i \in 1..(k - 1) :
                  StrLess(v.errors[i].node, v.errors[i + 1].node)
            /\ SubSeq(v.errors, k + 1, Len(v.errors))
                  = ClaimedEdgeErrors(v.edges, nodeSet, v.edge_types)
            /\ v.rc = (IF v.errors = <<>> THEN 0 ELSE 1)

\* C1 witness: a run reported two node errors and three errors for one edge
C1_Witness ==
    /\ validation # NotRun
    /\ \E i \in 1..(Len(validation[1].errors) - 4) :
          /\ validation[1].errors[i].kind = "node type not in schema"
          /\ validation[1].errors[i + 1].kind = "node type not in schema"
          /\ validation[1].errors[i + 2].kind = "edge type not in schema"
          /\ validation[1].errors[i + 3].kind = "missing src node"
          /\ validation[1].errors[i + 4].kind = "missing dst node"
          /\ validation[1].errors[i + 2].line_no = validation[1].errors[i + 4].line_no
    /\ validation[1].rc = 1

----------------------------------------------------------------------------
(* Label map: triage_entrypoints.parse_label_map and main's m() *)

\* the accepted spellings of the label map header, lower-cased
HDR_LABEL_MAP ==  \* "label map"
    <<108, 97, 98, 101, 108, 32, 109, 97, 112>>
HDR_LABEL_MAPPING ==  \* "label mapping"
    <<108, 97, 98, 101, 108, 32, 109, 97, 112, 112, 105, 110, 103>>
HDR_LABEL_MAP_HYPHEN ==  \* "label-map"
    <<108, 97, 98, 101, 108, 45, 109, 97, 112>>
HDR_LABEL_MAPPING_HYPHEN ==  \* "label-mapping"
    <<108, 97, 98, 101, 108, 45, 109, 97, 112, 112, 105, 110, 103>>

LabelMapHeaders ==
    {HDR_LABEL_MAP, HDR_LABEL_MAPPING, HDR_LABEL_MAP_HYPHEN,
     HDR_LABEL_MAPPING_HYPHEN}

\* mapping[src] = dst on a dict modelled as a function
DictSet(d, k, v) == [x \in DOMAIN d \cup {k} |-> IF x = k THEN v ELSE d[x]]

\* the `for sep in ("->", "=", ":")` loop: the first separator, in that
\* order, that occurs in the token decides; the loop breaks after it
MapBullet(mapping, token) ==
    LET sep == IF Contains(token, ARROW) THEN ARROW
               ELSE IF Contains(token, EQUALS) THEN EQUALS
               ELSE COLON
        sides == SplitOnce(token, sep)
        src == Strip(sides[1])
        dst == Strip(sides[2])
    IN  IF ~Contains(token, sep) THEN mapping
        ELSE IF src # <<>> /\ dst # <<>> THEN DictSet(mapping, src, dst)
        ELSE mapping

\* one iteration of the loop of parse_label_map on `line`
LabelMapStep(st, line) ==
    LET stripped == Strip(line)
        header == Lower(Strip(SubSeq(stripped, 4, Len(stripped))))
        token == BulletToken(line)
    IN  IF StartsWith(stripped, HDR_PREFIX)
        THEN [st EXCEPT !.in_section = (header \in LabelMapHeaders)]
        ELSE IF ~st.in_section THEN st
        ELSE IF ~BulletMatch(line) THEN st
        ELSE IF token = <<>> THEN st
        ELSE [st EXCEPT !.mapping = MapBullet(st.mapping, token)]

RECURSIVE LabelMapFold(_, _)
LabelMapFold(st, lines) ==
    IF lines = <<>> THEN st
    ELSE LabelMapFold(LabelMapStep(st, Head(lines)), Tail(lines))

\* parse_label_map: the dict canonical label -> actual label
ParseLabelMap(lines) ==
    LabelMapFold([mapping |-> <<>>, in_section |-> FALSE], lines).mapping

\* main's m(label) = label_map.get(label, label)
MapLabel(label_map, label) ==
    IF label \in DOMAIN label_map THEN label_map[label] ELSE label

\* _csv_set(value)
CsvSet(value) ==
    LET pieces == Split(value, COMMA)
    IN  {Strip(pieces[i]) : i \in 1..Len(pieces)} \ {<<>>}

\* the labels passed to triage when only the two label sets go through m()
TranslatedLabelsSetsOnly(label_map, args) ==
    [func_type |-> args.func_type,
     asset_type |-> args.asset_type,
     value_edge_types |-> {MapLabel(label_map, t) : t \in CsvSet(args.value_edges)},
     call_edge_types |-> {MapLabel(label_map, t) : t \in CsvSet(args.call_edges)},
     reads_edge_type |-> args.reads_edge,
     writes_edge_type |-> args.writes_edge,
     role_edge_type |-> args.role_edge]

\* the labels main passes to triage
TranslatedLabels(label_map, args) ==
    [func_type |-> MapLabel(label_map, args.func_type),
     asset_type |-> MapLabel(label_map, args.asset_type),
     value_edge_types |-> {MapLabel(label_map, t) : t \in CsvSet(args.value_edges)},
     call_edge_types |-> {MapLabel(label_map, t) : t \in CsvSet(args.call_edges)},
     reads_edge_type |-> MapLabel(label_map, args.reads_edge),
     writes_edge_type |-> MapLabel(label_map, args.writes_edge),
     role_edge_type |-> MapLabel(label_map, args.role_edge)]

----------------------------------------------------------------------------
(* Triage engine: triage_entrypoints.triage *)

\* is_typed(node, type_name)
IsTyped(node, type_name) == StartsWith(node, type_name \o COLON)

\* the entry by_func gets for every function node
NewStats ==
    [value_edges |-> 0, call_edges |-> 0, reads |-> 0, writes |-> 0,
     roles |-> {}, assets |-> {}]

\* the if / elif chain of the edge loop turned into independent ifs
ClassifyEdgeIndependent(stats, edge, labels) ==
    LET isValue == edge.edge_type \in labels.value_edge_types IN
    [value_edges |-> stats.value_edges + (IF isValue THEN 1 ELSE 0),
     assets |-> IF isValue /\ IsTyped(edge.dst, labels.asset_type)
                THEN stats.assets \cup {edge.dst} ELSE stats.assets,
     call_edges |-> stats.call_edges
        + (IF edge.edge_type \in labels.call_edge_types THEN 1 ELSE 0),
     reads |-> stats.reads
        + (IF edge.edge_type = labels.reads_edge_type THEN 1 ELSE 0),
     writes |-> stats.writes
        + (IF edge.edge_type = labels.writes_edge_type THEN 1 ELSE 0),
     roles |-> IF edge.edge_type = labels.role_edge_type
               THEN stats.roles \cup {edge.dst} ELSE stats.roles]

\* the if / elif chain of the edge loop: the new statistics of edge.src
ClassifyEdge(stats, edge, labels) ==
    IF edge.edge_type \in labels.value_edge_types
    THEN [stats EXCEPT !.value_edges = @ + 1,
                       !.assets = IF IsTyped(edge.dst, labels.asset_type)
                                  THEN @ \cup {edge.dst} ELSE @]
    ELSE IF edge.edge_type \in labels.call_edge_types
    THEN [stats EXCEPT !.call_edges = @ + 1]
    ELSE IF edge.edge_type = labels.reads_edge_type
    THEN [stats EXCEPT !.reads = @ + 1]
    ELSE IF edge.edge_type = labels.writes_edge_type
    THEN [stats EXCEPT !.writes = @ + 1]
    ELSE IF edge.edge_type = labels.role_edge_type
    THEN [stats EXCEPT !.roles = @ \cup {edge.dst}]
    ELSE stats

\* the edge loop's body with by_func.setdefault in place of the membership test
AccumulateEdgeAnySource(by_func, edge, labels) ==
    LET known == IF edge.src \in DOMAIN by_func THEN by_func[edge.src] ELSE NewStats
    IN  IF IsTyped(edge.src, labels.func_type)
        THEN DictSet(by_func, edge.src, ClassifyEdge(known, edge, labels))
        ELSE by_func

\* the edge loop's body: edges of untracked sources are skipped
AccumulateEdge(by_func, edge, labels) ==
    IF edge.src \notin DOMAIN by_func THEN by_func
    ELSE [by_func EXCEPT ![edge.src] = ClassifyEdge(@, edge, labels)]

RECURSIVE AccumulateEdges(_, _, _)
AccumulateEdges(by_func, edges, labels) ==
    IF edges = <<>> THEN by_func
    ELSE AccumulateEdges(AccumulateEdge(by_func, Head(edges), labels),
                         Tail(edges), labels)

\* by_func after the edge loop
ByFunc(nodes, edges, labels) ==
    LET funcs == {n \in nodes : IsTyped(n, labels.func_type)}
    IN  AccumulateEdges([f \in funcs |-> NewStats], edges, labels)

\* the tuple appended to `ranked` for one function
RankTuple(func, stats) ==
    <<stats.value_edges, Cardinality(stats.assets), stats.call_edges,
      stats.writes, stats.reads, func>>

\* a < b for the tuples of `ranked`: lexicographic, the last field a str
TupleLess(a, b) ==
    \E i \in 1..6 :
        /\ \A j \in 1..(i - 1) : a[j] = b[j]
        /\ IF i = 6 THEN StrLess(a[i], b[i]) ELSE a[i] < b[i]

\* ranked.sort() without reverse=True
RECURSIVE SortedTuplesAsc(_)
SortedTuplesAsc(S) ==
    IF S = {} THEN <<>>
    ELSE LET m == CHOOSE x \in S : \A y \in S \ {x} : TupleLess(x, y)
         IN  <<m>> \o SortedTuplesAsc(S \ {m})

\* ranked.sort(reverse=True)
RECURSIVE SortedTuplesDesc(_)
SortedTuplesDesc(S) ==
    IF S = {} THEN <<>>
    ELSE LET m == CHOOSE x \in S : \A y \in S \ {x} : TupleLess(y, x)
         IN  <<m>> \o SortedTuplesDesc(S \ {m})

\* ranked[limit:], the slice taken from the wrong end
SliceFrom(seq, limit) ==
    IF limit >= 0 THEN SubSeq(seq, limit + 1, Len(seq))
    ELSE SubSeq(seq, IF Len(seq) + limit < 0 THEN 1 ELSE Len(seq) + limit + 1,
                Len(seq))

\* ranked[:limit], negative limits counting from the end
SliceTo(seq, limit) ==
    IF limit >= 0 THEN SubSeq(seq, 1, IF limit < Len(seq) THEN limit ELSE Len(seq))
    ELSE SubSeq(seq, 1, IF Len(seq) + limit < 0 THEN 0 ELSE Len(seq) + limit)

NONE_STR ==  \* "none"
    <<110, 111, 110, 101>>

\* ",".join(items)
RECURSIVE JoinComma(_)
JoinComma(items) ==
    IF items = <<>> THEN <<>>
    ELSE IF Len(items) = 1 THEN items[1]
    ELSE items[1] \o COMMA \o JoinComma(Tail(items))

\* the fields of one report line
RenderEntry(t, stats) ==
    [kind |-> "entry", func |-> t[6], value_edges |-> t[1],
     assets |-> IF stats.assets = {} THEN NONE_STR
                ELSE JoinComma(SortedAsc(stats.assets)),
     calls |-> t[3], writes |-> t[4], reads |-> t[5],
     roles |-> IF stats.roles = {} THEN NONE_STR
               ELSE JoinComma(SortedAsc(stats.roles))]

\* the filter and the sort: `ranked` after ranked.sort(reverse=True)
Ranked(by_func, permissionless_only) ==
    SortedTuplesDesc(
        {RankTuple(f, by_func[f]) :
            f \in {g \in DOMAIN by_func :
                      ~(permissionless_only /\ by_func[g].roles # {})}})

\* triage's locals after its last loop over `top` = ranked[:limit]; `lines`
\* is what triage returns
TriageResult(nodes, edges, by_func, top) ==
    [nodes |-> nodes, edges |-> edges, by_func |-> by_func,
     lines |-> [i \in 1..Len(top) |-> RenderEntry(top[i], by_func[top[i][6]])]]

\* triage() from the edge loop's result on
TriageRanked(nodes, edges, by_func, limit, permissionless_only) ==
    TriageResult(nodes, edges, by_func,
                 SliceTo(Ranked(by_func, permissionless_only), limit))

\* triage() on the parsed graph
TriageGraph(nodes, edges, limit, permissionless_only, labels) ==
    TriageRanked(nodes, edges, ByFunc(nodes, edges, labels), limit,
                 permissionless_only)

\* triage()
Triage(nodesDoc, edgesDoc, limit, permissionless_only, labels) ==
    TriageGraph(TriageParseNodes(nodesDoc), TriageParseEdges(edgesDoc), limit,
                permissionless_only, labels)

----------------------------------------------------------------------------
(* Triage entry point: triage_entrypoints.main *)

\* the print statements of main: the header, the sentinel when triage returned
\* no line, then the lines
Printed(lines) ==
    <<[kind |-> "header"]>>
    \o (IF Len(lines) = 0 THEN <<[kind |-> "sentinel"]>> ELSE <<>>)
    \o lines

\* what a run of main leaves: the label map and labels it resolved, the
\* locals of its triage call, what it printed
MainResult(label_map, labels, t) ==
    [label_map |-> label_map, labels |-> labels, nodes |-> t.nodes,
     edges |-> t.edges, by_func |-> t.by_func, lines |-> t.lines,
     printed |-> Printed(t.lines)]

\* main() once the labels are translated
MainWithLabels(label_map, labels, nodesDoc, edgesDoc, limit, permissionless_only) ==
    MainResult(label_map, labels,
               Triage(nodesDoc, edgesDoc, limit, permissionless_only, labels))

\* main() once the label map is resolved
MainWithMap(label_map, nodesDoc, edgesDoc, args, permissionless_only) ==
    MainWithLabels(label_map, TranslatedLabels(label_map, args), nodesDoc,
                   edgesDoc, args.limit, permissionless_only)

\* main()
Main(schema, nodesDoc, edgesDoc, args, permissionless_only, no_label_map) ==
    MainWithMap(IF no_label_map THEN <<>> ELSE ParseLabelMap(schema),
                nodesDoc, edgesDoc, args, permissionless_only)

\* default values of the command line options
DEFAULT_FUNC_TYPE ==  \* "FUNC"
    <<70, 85, 78, 67>>
DEFAULT_ASSET_TYPE ==  \* "ASSET"
    <<65, 83, 83, 69, 84>>
DEFAULT_VALUE_EDGES ==  \* "TRANSFERS,MINTS,BURNS,COLLECTS_FEE"
    <<84, 82, 65, 78, 83, 70, 69, 82, 83, 44, 77, 73, 78, 84, 83, 44, 66,
      85, 82, 78, 83, 44, 67, 79, 76, 76, 69, 67, 84, 83, 95, 70, 69, 69>>
DEFAULT_CALL_EDGES ==  \* "EXT_CALLS,DELEGATECALLS,STATICCALLS"
    <<69, 88, 84, 95, 67, 65, 76, 76, 83, 44, 68, 69, 76, 69, 71, 65, 84,
      69, 67, 65, 76, 76, 83, 44, 83, 84, 65, 84, 73, 67, 67, 65, 76, 76,
      83>>
DEFAULT_READS_EDGE ==  \* "READS"
    <<82, 69, 65, 68, 83>>
DEFAULT_WRITES_EDGE ==  \* "WRITES"
    <<87, 82, 73, 84, 69, 83>>
DEFAULT_ROLE_EDGE ==  \* "REQUIRES_ROLE"
    <<82, 69, 81, 85, 73, 82, 69, 83, 95, 82, 79, 76, 69>>
DEFAULT_LIMIT == 50

\* option values given on the command line
ARG_VALUE_OVERLAP ==  \* "TRANSFERS, EXT_CALLS"
    <<84, 82, 65, 78, 83, 70, 69, 82, 83, 44, 32, 69, 88, 84, 95, 67, 65,
      76, 76, 83>>
ARG_CALL_OVERLAP ==  \* "EXT_CALLS,READS,"
    <<69, 88, 84, 95, 67, 65, 76, 76, 83, 44, 82, 69, 65, 68, 83, 44>>

\* --limit values: negative, zero, truncating, the default
Limits == {-1, 0, 1, DEFAULT_LIMIT}

DefaultArgs ==
    [limit |-> DEFAULT_LIMIT,
     func_type |-> DEFAULT_FUNC_TYPE, asset_type |-> DEFAULT_ASSET_TYPE,
     value_edges |-> DEFAULT_VALUE_EDGES, call_edges |-> DEFAULT_CALL_EDGES,
     reads_edge |-> DEFAULT_READS_EDGE, writes_edge |-> DEFAULT_WRITES_EDGE,
     role_edge |-> DEFAULT_ROLE_EDGE]

\* label options under which one edge type matches several classifications:
\* EXT_CALLS is a value and a call label, READS a call and the reads label,
\* REQUIRES_ROLE the writes and the role label
OverlapArgs ==
    [DefaultArgs EXCEPT !.value_edges = ARG_VALUE_OVERLAP,
                        !.call_edges = ARG_CALL_OVERLAP,
                        !.writes_edge = DEFAULT_ROLE_EDGE]

\* READS is the reads and the writes label
ReadsIsWritesArgs == [DefaultArgs EXCEPT !.writes_edge = DEFAULT_READS_EDGE]

\* the command lines of the triage runs: the overlapping labels with the
\* default limit, the others with every limit
TriageArgs ==
    {OverlapArgs} \cup {[ReadsIsWritesArgs EXCEPT !.limit = l] : l \in Limits}

\* lines the documents of a triage run are drawn from
E_EXT_CALLS_B_A ==  \* "- EXT_CALLS | FUNC:b -> FUNC:a"
    <<45, 32, 69, 88, 84, 95, 67, 65, 76, 76, 83, 32, 124, 32, 70, 85, 78,
      67, 58, 98, 32, 45, 62, 32, 70, 85, 78, 67, 58, 97>>
E_ROLE_A_R ==  \* "- REQUIRES_ROLE | FUNC:a -> ROLE:r"
    <<45, 32, 82, 69, 81, 85, 73, 82, 69, 83, 95, 82, 79, 76, 69, 32, 124,
      32, 70, 85, 78, 67, 58, 97, 32, 45, 62, 32, 82, 79, 76, 69, 58,
      114>>
E_READS_B_U ==  \* "- READS | FUNC:b -> ASSET:u"
    <<45, 32, 82, 69, 65, 68, 83, 32, 124, 32, 70, 85, 78, 67, 58, 98, 32,
      45, 62, 32, 65, 83, 83, 69, 84, 58, 117>>

TriageNodeLines == {N_FUNC_A, N_FUNC_B, N_ASSET_U}
TriageEdgeLines == {E_TRANSFERS_A_U, E_EXT_CALLS_B_A, E_ROLE_A_R, E_READS_B_U}

\* the result slots: one per (permissionless_only, no_label_map)
Flags == BOOLEAN \X BOOLEAN

InitTriage ==
    /\ schema_lines = <<>>
    /\ nodes_lines \in SeqsUpTo(TriageNodeLines, MaxNodeLines)
    /\ edges_lines \in SeqsUpTo(TriageEdgeLines, MaxEdgeLines)
    /\ cli \in TriageArgs
    /\ out = [f \in Flags |-> NotRun]
    /\ IdleSchemaParser
    /\ IdleNodeParsers
    /\ IdleValidator
    /\ IdleScaffold

\* one invocation of the triage entry point with the given flags; the model
\* makes each flag combination's run once, a repeated run prints the same
RunMain(permissionless_only, no_label_map) ==
    /\ out[<<permissionless_only, no_label_map>>] = NotRun
    /\ out' = [out EXCEPT ![<<permissionless_only, no_label_map>>] =
                 Ran(Main(schema_lines, nodes_lines, edges_lines, cli,
                          permissionless_only, no_label_map))]
    /\ UNCHANGED <<schema_lines, nodes_lines, edges_lines, line_idx, section,
                   node_types, edge_types, v_nodes, t_nodes, validation, cli,
                   fs, scaffold_runs>>

\* the unfiltered run and the --permissionless-only run
TriageAll == RunMain(FALSE, FALSE)
TriagePermissionless == RunMain(TRUE, FALSE)

NextTriage == TriageAll \/ TriagePermissionless

SpecTriage == InitTriage /\ [][NextTriage]_vars

\* the results of the runs made so far
Runs == {out[f][1] : f \in {g \in Flags : out[g] # NotRun}}

\* the set of entries a run returned
Entries(r) == {r.lines[i] : i \in 1..Len(r.lines)}

\* C3 as stated: with the same input and limit, the entries of the
\* permissionless-only run are a subset of the entries of the unfiltered run.
C3_FilterOnlyRemoves ==
    (out[<<TRUE, FALSE>>] # NotRun /\ out[<<FALSE, FALSE>>] # NotRun) =>
        Entries(out[<<TRUE, FALSE>>][1]) \subseteq Entries(out[<<FALSE, FALSE>>][1])

\* C3 amended: every entry of the permissionless-only run is a function the
\* unfiltered run tracks, with the statistics the unfiltered run computed, and
\* it is among the unfiltered run's entries whenever the limit does not
\* truncate the unfiltered ranking (limit >= number of function nodes) or
\* limit <= 0.
C3_FilterOnlyRemovesUncapped ==
    (out[<<TRUE, FALSE>>] # NotRun /\ out[<<FALSE, FALSE>>] # NotRun) =>
        LET filtered == out[<<TRUE, FALSE>>][1]
            all == out[<<FALSE, FALSE>>][1]
        IN  /\ \A e \in Entries(filtered) :
                  /\ e.func \in DOMAIN all.by_func
                  /\ all.by_func[e.func].roles = {}
                  /\ e.value_edges = all.by_func[e.func].value_edges
                  /\ e.calls = all.by_func[e.func].call_edges
                  /\ e.writes = all.by_func[e.func].writes
                  /\ e.reads = all.by_func[e.func].reads
            /\ (cli.limit <= 0 \/ cli.limit >= Cardinality(DOMAIN all.by_func))
                  => Entries(filtered) \subseteq Entries(all)

\* C3 witness: both runs made, the filter removed a function that requires a
\* role and kept another one
C3_Witness ==
    /\ out[<<TRUE, FALSE>>] # NotRun
    /\ out[<<FALSE, FALSE>>] # NotRun
    /\ Len(out[<<TRUE, FALSE>>][1].lines) = 1
    /\ Len(out[<<FALSE, FALSE>>][1].lines) = 2
    /\ \E e \in Entries(out[<<FALSE, FALSE>>][1]) : e.roles # NONE_STR

\* the ranking key of a returned entry; the asset count is the number of
\* functions' distinct assets the run recorded
KeyOf(r, e) ==
    <<e.value_edges, Cardinality(r.by_func[e.func].assets), e.calls, e.writes,
      e.reads, e.func>>

\* a > b in the lexicographic order of the key
KeyGreater(a, b) ==
    \/ a[1] > b[1]
    \/ a[1] = b[1] /\ a[2] > b[2]
    \/ a[1] = b[1] /\ a[2] = b[2] /\ a[3] > b[3]
    \/ a[1] = b[1] /\ a[2] = b[2] /\ a[3] = b[3] /\ a[4] > b[4]
    \/ a[1] = b[1] /\ a[2] = b[2] /\ a[3] = b[3] /\ a[4] = b[4] /\ a[5] > b[5]
    \/ a[1] = b[1] /\ a[2] = b[2] /\ a[3] = b[3] /\ a[4] = b[4] /\ a[5] = b[5]
       /\ StrLess(b[6], a[6])

\* C4: the returned entries are in strictly descending order of the key
\* (value_edges, distinct_asset_count, call_edges, writes, reads, identifier).
C4_StrictlyDescending ==
    \A r \in Runs :
        \A i, j \in 1..Len(r.lines) :
            i < j => KeyGreater(KeyOf(r, r.lines[i]), KeyOf(r, r.lines[j]))

\* C4 witness: two functions with identical statistics were returned, the
\* one with the greater identifier first
C4_Witness ==
    \E r \in Runs :
        /\ Len(r.lines) = 2
        /\ r.by_func[r.lines[1].func] = r.by_func[r.lines[2].func]
        /\ StrLess(r.lines[2].func, r.lines[1].func)

\* C4 witness of the numeric part: the statistics decided the order against
\* the identifiers
C4_WitnessNumeric ==
    \E r \in Runs :
        /\ Len(r.lines) = 2
        /\ r.lines[1].value_edges > r.lines[2].value_edges
        /\ StrLess(r.lines[1].func, r.lines[2].func)


\* positions in the edge list of the edges whose source is f
OutEdges(r, f) == {i \in 1..Len(r.edges) : r.edges[i].src = f}

\* the edges of f the claim assigns to each bucket, by the priority
\* value-touch, call, reads, writes, role
ValueBucket(r, f) ==
    {i \in OutEdges(r, f) : r.edges[i].edge_type \in r.labels.value_edge_types}
CallBucket(r, f) ==
    {i \in OutEdges(r, f) \ ValueBucket(r, f) :
        r.edges[i].edge_type \in r.labels.call_edge_types}
ReadsBucket(r, f) ==
    {i \in OutEdges(r, f) \ (ValueBucket(r, f) \cup CallBucket(r, f)) :
        r.edges[i].edge_type = r.labels.reads_edge_type}
WritesBucket(r, f) ==
    {i \in OutEdges(r, f)
          \ (ValueBucket(r, f) \cup CallBucket(r, f) \cup ReadsBucket(r, f)) :
        r.edges[i].edge_type = r.labels.writes_edge_type}
RoleBucket(r, f) ==
    {i \in OutEdges(r, f)
          \ (ValueBucket(r, f) \cup CallBucket(r, f) \cup ReadsBucket(r, f)
             \cup WritesBucket(r, f)) :
        r.edges[i].edge_type = r.labels.role_edge_type}

\* C5: every edge of a tracked function is counted in at most one bucket,
\* the first one it matches in the order value-touch, call, reads, writes,
\* role; so value_edges + call_edges + reads + writes + role edges never
\* exceeds the function's number of outgoing edges.
C5_OneBucketPerEdge ==
    \A r \in Runs :
        \A f \in DOMAIN r.by_func :
            LET st == r.by_func[f] IN
            /\ st.value_edges = Cardinality(ValueBucket(r, f))
            /\ st.call_edges = Cardinality(CallBucket(r, f))
            /\ st.reads = Cardinality(ReadsBucket(r, f))
            /\ st.writes = Cardinality(WritesBucket(r, f))
            /\ st.roles = {r.edges[i].dst : i \in RoleBucket(r, f)}
            /\ st.value_edges + st.call_edges + st.reads + st.writes
                 + Cardinality(RoleBucket(r, f)) <= Cardinality(OutEdges(r, f))

\* C5 witness: a tracked function has an edge whose type is a value-touch and
\* a call label, counted as a value edge only, and another function an edge
\* whose type is the reads and the writes label, counted as a read only
C5_Witness ==
    \E r \in Runs : \E f \in DOMAIN r.by_func : \E i \in OutEdges(r, f) :
        /\ r.edges[i].edge_type \in r.labels.value_edge_types
        /\ r.edges[i].edge_type \in r.labels.call_edge_types
        /\ r.by_func[f].value_edges = 1
        /\ r.by_func[f].call_edges = 0

\* C5 witness for the lower priorities: an edge whose type is both the reads
\* and the writes label was counted as a read
C5_WitnessReads ==
    \E r \in Runs : \E f \in DOMAIN r.by_func : \E i \in OutEdges(r, f) :
        /\ r.edges[i].edge_type = r.labels.reads_edge_type
        /\ r.edges[i].edge_type = r.labels.writes_edge_type
        /\ r.by_func[f].reads = 1
        /\ r.by_func[f].writes = 0

\* C8 as stated: the sentinel line is printed exactly when the graph has no
\* qualifying function node.
C8_SentinelIffNoFunctions ==
    \A r \in Runs :
        (\E i \in 1..Len(r.printed) : r.printed[i].kind = "sentinel")
            <=> (DOMAIN r.by_func = {})

\* n begins with the type label followed by a colon
HasTypePrefix(n, type_name) ==
    /\ Len(n) > Len(type_name)
    /\ \A i \in 1..Len(type_name) : n[i] = type_name[i]
    /\ n[Len(type_name) + 1] = 58

\* the edges of r whose source is a declared node with the function type
EdgesOfDeclaredFunctions(r) ==
    SelectSeq(r.edges,
              LAMBDA e : e.src \in r.nodes /\ HasTypePrefix(e.src, r.labels.func_type))

\* C10: the tracked and reported identifiers are members of the node set
\* that start with the function type and a colon, and edges of any other
\* source change no statistics and add no entry.
C10_OnlyDeclaredFunctions ==
    \A r \in Runs :
        /\ DOMAIN r.by_func =
              {n \in r.nodes : HasTypePrefix(n, r.labels.func_type)}
        /\ \A e \in Entries(r) : e.func \in DOMAIN r.by_func
        /\ r.by_func = ByFunc(r.nodes, EdgesOfDeclaredFunctions(r), r.labels)

\* C10 witness: the edges hold a function-shaped source that is not a
\* declared node, next to a declared function and a declared other node
C10_Witness ==
    \E r \in Runs :
        /\ \E i \in 1..Len(r.edges) :
              /\ HasTypePrefix(r.edges[i].src, r.labels.func_type)
              /\ r.edges[i].src \notin r.nodes
        /\ \E n \in r.nodes : ~HasTypePrefix(n, r.labels.func_type)
        /\ Len(r.lines) = 1


----------------------------------------------------------------------------
(* Triage with the label map of the schema document *)

\* lines the schema document of a label-map run is drawn from
M_WRITES_MOD ==  \* "- WRITES -> MOD_STORAGE"
    <<45, 32, 87, 82, 73, 84, 69, 83, 32, 45, 62, 32, 77, 79, 68, 95, 83,
      84, 79, 82, 65, 71, 69>>
M_WRITES_READS ==  \* "- WRITES = READS"
    <<45, 32, 87, 82, 73, 84, 69, 83, 32, 61, 32, 82, 69, 65, 68, 83>>
M_READS_MOD ==  \* "- READS: MOD_STORAGE"
    <<45, 32, 82, 69, 65, 68, 83, 58, 32, 77, 79, 68, 95, 83, 84, 79, 82,
      65, 71, 69>>
MOD_STORAGE ==  \* "MOD_STORAGE"
    <<77, 79, 68, 95, 83, 84, 79, 82, 65, 71, 69>>
E_MOD_STORAGE_A_U ==  \* "- MOD_STORAGE | FUNC:a -> ASSET:u | slot=0"
    <<45, 32, 77, 79, 68, 95, 83, 84, 79, 82, 65, 71, 69, 32, 124, 32, 70,
      85, 78, 67, 58, 97, 32, 45, 62, 32, 65, 83, 83, 69, 84, 58, 117, 32,
      124, 32, 115, 108, 111, 116, 61, 48>>
E_READS_A_U ==  \* "- READS | FUNC:a -> ASSET:u"
    <<45, 32, 82, 69, 65, 68, 83, 32, 124, 32, 70, 85, 78, 67, 58, 97, 32,
      45, 62, 32, 65, 83, 83, 69, 84, 58, 117>>

LabelMapLines ==
    {L_LABEL_MAP, L_EDGE_TYPES, M_WRITES_MOD, M_WRITES_READS, M_READS_MOD}

LabelMapEdgeLines == {E_MOD_STORAGE_A_U, E_READS_A_U}

InitLabelMap ==
    /\ schema_lines \in SeqsUpTo(LabelMapLines, MaxSchemaLines)
    /\ nodes_lines = <<N_FUNC_A>>
    /\ edges_lines \in SeqsUpTo(LabelMapEdgeLines, MaxEdgeLines)
    /\ cli = DefaultArgs
    /\ out = [f \in Flags |-> NotRun]
    /\ IdleSchemaParser
    /\ IdleNodeParsers
    /\ IdleValidator
    /\ IdleScaffold

\* the run with the label map and the --no-label-map run
TriageWithLabelMap == RunMain(FALSE, FALSE)
TriageNoLabelMap == RunMain(FALSE, TRUE)

NextLabelMap == TriageWithLabelMap \/ TriageNoLabelMap

SpecLabelMap == InitLabelMap /\ [][NextLabelMap]_vars

\* the statistic of the bucket of the canonical label c (READS or WRITES)
BucketCount(st, c) == IF c = DEFAULT_WRITES_EDGE THEN st.writes ELSE st.reads

\* number of edges of f with type a
EdgesOfType(r, f, a) ==
    Cardinality({i \in OutEdges(r, f) : r.edges[i].edge_type = a})

\* C6 as stated: when the label map maps a canonical label C to A, the run
\* with the map counts the edges of type A in C's bucket, and the run without
\* the map counts no edge of type A there.
C6_MappedEdgesCounted ==
    (out[<<FALSE, FALSE>>] # NotRun /\ out[<<FALSE, TRUE>>] # NotRun) =>
        LET w == out[<<FALSE, FALSE>>][1]
            n == out[<<FALSE, TRUE>>][1]
        IN  \A c \in DOMAIN w.label_map \cap {DEFAULT_READS_EDGE, DEFAULT_WRITES_EDGE} :
                /\ \A f \in DOMAIN w.by_func :
                      BucketCount(w.by_func[f], c) = EdgesOfType(w, f, w.label_map[c])
                /\ \A f \in DOMAIN n.by_func :
                      BucketCount(n.by_func[f], c) = EdgesOfType(n, f, c)

\* what the bullet lines say: canonical label, actual label
BulletSays(line) ==
    IF line = M_WRITES_MOD THEN <<DEFAULT_WRITES_EDGE, MOD_STORAGE>>
    ELSE IF line = M_WRITES_READS THEN <<DEFAULT_WRITES_EDGE, DEFAULT_READS_EDGE>>
    ELSE <<DEFAULT_READS_EDGE, MOD_STORAGE>>

IsMapBullet(line) == line \in {M_WRITES_MOD, M_WRITES_READS, M_READS_MOD}
IsHeaderLine(line) == line \in {L_LABEL_MAP, L_EDGE_TYPES}

\* positions of the mapping bullets inside a label map section
SectionBullets(lines) ==
    {i \in 1..Len(lines) :
        /\ IsMapBullet(lines[i])
        /\ \E j \in 1..(i - 1) :
              /\ lines[j] = L_LABEL_MAP
              /\ \A k \in (j + 1)..(i - 1) : ~IsHeaderLine(lines[k])}

\* the actual label of the last bullet of the section that maps c
LastMapped(lines, c) ==
    LET is == {i \in SectionBullets(lines) : BulletSays(lines[i])[1] = c}
        last == CHOOSE i \in is : \A j \in is : j <= i
    IN  BulletSays(lines[last])[2]

\* label d looked up in the dict lm
Resolved(lm, d) == IF d \in DOMAIN lm THEN lm[d] ELSE d

\* C6 amended: the label map holds, for every canonical label with a bullet
\* in a label map section, the actual label of its last bullet; the run with
\* the map passes every default label through it and the run without the
\* map passes the defaults; edges of type A = map[C] of a tracked function
\* are counted in C's bucket unless A is also a translated label of a bucket
\* of higher priority, and without the map C's bucket counts edges of type C
\* only, so none of type A when A differs from C.
C6_LabelMapTranslates ==
    (out[<<FALSE, FALSE>>] # NotRun /\ out[<<FALSE, TRUE>>] # NotRun) =>
        LET w == out[<<FALSE, FALSE>>][1]
            n == out[<<FALSE, TRUE>>][1]
            lm == w.label_map
            higher(c) ==
                w.labels.value_edge_types \cup w.labels.call_edge_types
                \cup (IF c = DEFAULT_WRITES_EDGE THEN {w.labels.reads_edge_type} ELSE {})
        IN  /\ DOMAIN lm = {BulletSays(schema_lines[i])[1] :
                               i \in SectionBullets(schema_lines)}
            /\ \A c \in DOMAIN lm : lm[c] = LastMapped(schema_lines, c)
            /\ w.labels.func_type = Resolved(lm, DEFAULT_FUNC_TYPE)
            /\ w.labels.asset_type = Resolved(lm, DEFAULT_ASSET_TYPE)
            /\ w.labels.value_edge_types =
                  {Resolved(lm, t) : t \in CsvSet(DEFAULT_VALUE_EDGES)}
            /\ w.labels.call_edge_types =
                  {Resolved(lm, t) : t \in CsvSet(DEFAULT_CALL_EDGES)}
            /\ w.labels.reads_edge_type = Resolved(lm, DEFAULT_READS_EDGE)
            /\ w.labels.writes_edge_type = Resolved(lm, DEFAULT_WRITES_EDGE)
            /\ w.labels.role_edge_type = Resolved(lm, DEFAULT_ROLE_EDGE)
            /\ n.label_map = <<>>
            /\ n.labels.reads_edge_type = DEFAULT_READS_EDGE
            /\ n.labels.writes_edge_type = DEFAULT_WRITES_EDGE
            /\ \A c \in DOMAIN lm \cap {DEFAULT_READS_EDGE, DEFAULT_WRITES_EDGE} :
                  /\ \A f \in DOMAIN w.by_func :
                        lm[c] \notin higher(c) =>
                            BucketCount(w.by_func[f], c) = EdgesOfType(w, f, lm[c])
                  /\ \A f \in DOMAIN n.by_func :
                        BucketCount(n.by_func[f], c) = EdgesOfType(n, f, c)

\* C6 witness: the map holds WRITES -> MOD_STORAGE, a tracked function has a
\* MOD_STORAGE edge, the run with the map counts it as a write and the run
\* without the map counts no write
C6_Witness ==
    /\ out[<<FALSE, FALSE>>] # NotRun
    /\ out[<<FALSE, TRUE>>] # NotRun
    /\ DEFAULT_WRITES_EDGE \in DOMAIN out[<<FALSE, FALSE>>][1].label_map
    /\ out[<<FALSE, FALSE>>][1].label_map[DEFAULT_WRITES_EDGE] = MOD_STORAGE
    /\ \E f \in DOMAIN out[<<FALSE, FALSE>>][1].by_func :
          /\ out[<<FALSE, FALSE>>][1].by_func[f].writes = 1
          /\ out[<<FALSE, TRUE>>][1].by_func[f].writes = 0

\* ---------------------------------------------------------------------
\* init_investigation_workspace.py: the workspace scaffolder.
\*
\* The file system is a function from the paths the scaffolder touches
\* (relative to the workspace root) to what is there: nothing, a
\* directory, or a file with its text.
\* ---------------------------------------------------------------------

\* How many entries of the workspace may exist before the first run, not
\* counting the directories that have to exist above them.
MaxPreexisting == 2

ROOT == "."                              \* Path(args.path).resolve()
codegraph_dir == "codegraph"             \* root / "codegraph"
layers_dir == "codegraph/layers"         \* codegraph_dir / "layers"
diagrams_dir == "codegraph/diagrams"     \* codegraph_dir / "diagrams"

dirs == <<codegraph_dir, layers_dir, diagrams_dir>>

\* The three source-of-truth files and their starting text, in the order written.
ssot_files ==
    <<
      [path |-> "codegraph/00_schema.md",  \* text begins "# Codegraph Schema (SSOT)"
       content |->
         <<35, 32, 67, 111, 100, 101, 103, 114, 97, 112, 104, 32, 83, 99,
           104, 101, 109, 97, 32, 40, 83, 83, 79, 84, 41, 10, 10, 35, 35,
           32, 78, 111, 100, 101, 32, 84, 121, 112, 101, 115, 10, 10, 45,
           32, 10, 10, 35, 35, 32, 69, 100, 103, 101, 32, 84, 121, 112, 101,
           115, 10, 10, 45, 32, 10, 10, 35, 35, 32, 76, 97, 98, 101, 108,
           32, 77, 97, 112, 32, 40, 111, 112, 116, 105, 111, 110, 97, 108,
           41, 10, 10, 45, 32, 67, 65, 78, 79, 78, 73, 67, 65, 76, 32, 45,
           62, 32, 65, 67, 84, 85, 65, 76, 10>>],
      [path |-> "codegraph/01_nodes.md",  \* text begins "# Codegraph Nodes (SSOT)"
       content |->
         <<35, 32, 67, 111, 100, 101, 103, 114, 97, 112, 104, 32, 78, 111,
           100, 101, 115, 32, 40, 83, 83, 79, 84, 41, 10, 10, 45, 32, 10>>],
      [path |-> "codegraph/02_edges.md",  \* text begins "# Codegraph Edges (SSOT)"
       content |->
         <<35, 32, 67, 111, 100, 101, 103, 114, 97, 112, 104, 32, 69, 100,
           103, 101, 115, 32, 40, 83, 83, 79, 84, 41, 10, 10, 45, 32, 69,
           68, 71, 69, 95, 84, 89, 80, 69, 32, 124, 32, 83, 82, 67, 32, 45,
           62, 32, 68, 83, 84, 32, 124, 32, 97, 116, 116, 114, 115, 46, 46,
           46, 10>>]
    >>

\* The 22 layer files and their one-line headers, in the order written.
layer_files ==
    <<
      [path |-> "codegraph/layers/L1_repo.md",  \* text begins "# L1 - Repository Inventory"
       content |->
         <<35, 32, 76, 49, 32, 8212, 32, 82, 101, 112, 111, 115, 105, 116,
           111, 114, 121, 32, 73, 110, 118, 101, 110, 116, 111, 114, 121,
           10>>],
      [path |-> "codegraph/layers/L2_catalog.md",  \* text begins "# L2 - Module Catalog"
       content |->
         <<35, 32, 76, 50, 32, 8212, 32, 77, 111, 100, 117, 108, 101, 32,
           67, 97, 116, 97, 108, 111, 103, 10>>],
      [path |-> "codegraph/layers/L3_types.md",  \* text begins "# L3 - Type System"
       content |->
         <<35, 32, 76, 51, 32, 8212, 32, 84, 121, 112, 101, 32, 83, 121,
           115, 116, 101, 109, 10>>],
      [path |-> "codegraph/layers/L4_inheritance.md",  \* text begins "# L4 - Inheritance + Overrides"
       content |->
         <<35, 32, 76, 52, 32, 8212, 32, 73, 110, 104, 101, 114, 105, 116,
           97, 110, 99, 101, 32, 43, 32, 79, 118, 101, 114, 114, 105, 100,
           101, 115, 10>>],
      [path |-> "codegraph/layers/L5_external_surface.md",  \* text begins "# L5 - External Surface"
       content |->
         <<35, 32, 76, 53, 32, 8212, 32, 69, 120, 116, 101, 114, 110, 97,
           108, 32, 83, 117, 114, 102, 97, 99, 101, 10>>],
      [path |-> "codegraph/layers/L6_deployment_topology.md",  \* text begins "# L6 - Deployment + Topology"
       content |->
         <<35, 32, 76, 54, 32, 8212, 32, 68, 101, 112, 108, 111, 121, 109,
           101, 110, 116, 32, 43, 32, 84, 111, 112, 111, 108, 111, 103, 121,
           10>>],
      [path |-> "codegraph/layers/L7_authority.md",  \* text begins "# L7 - Authority"
       content |->
         <<35, 32, 76, 55, 32, 8212, 32, 65, 117, 116, 104, 111, 114, 105,
           116, 121, 10>>],
      [path |-> "codegraph/layers/L8_storage.md",  \* text begins "# L8 - Storage"
       content |->
         <<35, 32, 76, 56, 32, 8212, 32, 83, 116, 111, 114, 97, 103, 101,
           10>>],
      [path |-> "codegraph/layers/L9_function_semantics.md",  \* text begins "# L9 - Function Semantics"
       content |->
         <<35, 32, 76, 57, 32, 8212, 32, 70, 117, 110, 99, 116, 105, 111,
           110, 32, 83, 101, 109, 97, 110, 116, 105, 99, 115, 10>>],
      [path |-> "codegraph/layers/L10_call_graph.md",  \* text begins "# L10 - Call Graph"
       content |->
         <<35, 32, 76, 49, 48, 32, 8212, 32, 67, 97, 108, 108, 32, 71, 114,
           97, 112, 104, 10>>],
      [path |-> "codegraph/layers/L11_value_accounting.md",  \* text begins "# L11 - Value + Accounting"
       content |->
         <<35, 32, 76, 49, 49, 32, 8212, 32, 86, 97, 108, 117, 101, 32, 43,
           32, 65, 99, 99, 111, 117, 110, 116, 105, 110, 103, 10>>],
      [path |-> "codegraph/layers/L12_external_systems.md",  \* text begins "# L12 - External Systems + Trust Assumptions"
       content |->
         <<35, 32, 76, 49, 50, 32, 8212, 32, 69, 120, 116, 101, 114, 110,
           97, 108, 32, 83, 121, 115, 116, 101, 109, 115, 32, 43, 32, 84,
           114, 117, 115, 116, 32, 65, 115, 115, 117, 109, 112, 116, 105,
           111, 110, 115, 10>>],
      [path |-> "codegraph/layers/L13_state_machine.md",  \* text begins "# L13 - State Machine"
       content |->
         <<35, 32, 76, 49, 51, 32, 8212, 32, 83, 116, 97, 116, 101, 32, 77,
           97, 99, 104, 105, 110, 101, 10>>],
      [path |-> "codegraph/layers/L14_invariants.md",  \* text begins "# L14 - Invariants"
       content |->
         <<35, 32, 76, 49, 52, 32, 8212, 32, 73, 110, 118, 97, 114, 105, 97,
           110, 116, 115, 10>>],
      [path |-> "codegraph/layers/L15_attack_surface.md",  \* text begins "# L15 - Attack Surface (permissionless)"
       content |->
         <<35, 32, 76, 49, 53, 32, 8212, 32, 65, 116, 116, 97, 99, 107, 32,
           83, 117, 114, 102, 97, 99, 101, 32, 40, 112, 101, 114, 109, 105,
           115, 115, 105, 111, 110, 108, 101, 115, 115, 41, 10>>],
      [path |-> "codegraph/layers/L16_primitives.md",  \* text begins "# L16 - Exploit Primitives (capability-first)"
       content |->
         <<35, 32, 76, 49, 54, 32, 8212, 32, 69, 120, 112, 108, 111, 105,
           116, 32, 80, 114, 105, 109, 105, 116, 105, 118, 101, 115, 32, 40,
           99, 97, 112, 97, 98, 105, 108, 105, 116, 121, 45, 102, 105, 114,
           115, 116, 41, 10>>],
      [path |-> "codegraph/layers/L17_falsifiers.md",  \* text begins "# L17 - Falsifiers + Proofs"
       content |->
         <<35, 32, 76, 49, 55, 32, 8212, 32, 70, 97, 108, 115, 105, 102,
           105, 101, 114, 115, 32, 43, 32, 80, 114, 111, 111, 102, 115, 10>>],
      [path |-> "codegraph/layers/L18_learnings.md",  \* text begins "# L18 - Learnings + Mutation"
       content |->
         <<35, 32, 76, 49, 56, 32, 8212, 32, 76, 101, 97, 114, 110, 105,
           110, 103, 115, 32, 43, 32, 77, 117, 116, 97, 116, 105, 111, 110,
           10>>],
      [path |-> "codegraph/layers/L19_control_plane.md",  \* text begins "# L19 - Control Plane Objective Map"
       content |->
         <<35, 32, 76, 49, 57, 32, 8212, 32, 67, 111, 110, 116, 114, 111,
           108, 32, 80, 108, 97, 110, 101, 32, 79, 98, 106, 101, 99, 116,
           105, 118, 101, 32, 77, 97, 112, 10>>],
      [path |-> "codegraph/layers/L20_approval_surface.md",  \* text begins "# L20 - Approval Surface Objective Map"
       content |->
         <<35, 32, 76, 50, 48, 32, 8212, 32, 65, 112, 112, 114, 111, 118,
           97, 108, 32, 83, 117, 114, 102, 97, 99, 101, 32, 79, 98, 106,
           101, 99, 116, 105, 118, 101, 32, 77, 97, 112, 10>>],
      [path |-> "codegraph/layers/L21_ordering_model.md",  \* text begins "# L21 - Ordering Model"
       content |->
         <<35, 32, 76, 50, 49, 32, 8212, 32, 79, 114, 100, 101, 114, 105,
           110, 103, 32, 77, 111, 100, 101, 108, 10>>],
      [path |-> "codegraph/layers/L22_cycle_mining.md",  \* text begins "# L22 - Cycle Mining"
       content |->
         <<35, 32, 76, 50, 50, 32, 8212, 32, 67, 121, 99, 108, 101, 32, 77,
           105, 110, 105, 110, 103, 10>>]
    >>

\* The four ledgers of the workspace root and their starting text, in the order written.
ledgers ==
    <<
      [path |-> "hypothesis_ledger.md",  \* text begins "# Hypothesis Ledger"
       content |->
         <<35, 32, 72, 121, 112, 111, 116, 104, 101, 115, 105, 115, 32, 76,
           101, 100, 103, 101, 114, 10, 10, 124, 32, 115, 99, 101, 110, 97,
           114, 105, 111, 73, 100, 32, 124, 32, 116, 97, 114, 103, 101, 116,
           83, 116, 97, 116, 101, 88, 32, 124, 32, 116, 97, 114, 103, 101,
           116, 65, 115, 115, 101, 116, 115, 65, 110, 100, 67, 117, 115,
           116, 111, 100, 121, 32, 124, 32, 112, 101, 114, 109, 105, 115,
           115, 105, 111, 110, 108, 101, 115, 115, 80, 114, 101, 99, 111,
           110, 100, 105, 116, 105, 111, 110, 115, 32, 124, 32, 114, 111,
           117, 116, 101, 83, 107, 101, 116, 99, 104, 32, 124, 32, 101, 118,
           105, 100, 101, 110, 99, 101, 80, 111, 105, 110, 116, 101, 114,
           115, 32, 124, 32, 102, 97, 108, 115, 105, 102, 105, 101, 114, 32,
           124, 32, 115, 116, 97, 116, 117, 115, 32, 124, 32, 109, 101, 97,
           115, 117, 114, 97, 98, 108, 101, 68, 101, 108, 116, 97, 32, 124,
           32, 101, 120, 105, 116, 77, 101, 97, 115, 117, 114, 101, 109,
           101, 110, 116, 32, 124, 32, 99, 111, 115, 116, 65, 110, 100, 67,
           97, 112, 105, 116, 97, 108, 32, 124, 32, 99, 97, 112, 105, 116,
           97, 108, 77, 105, 110, 105, 109, 105, 122, 97, 116, 105, 111,
           110, 80, 108, 97, 110, 32, 124, 32, 119, 104, 97, 116, 75, 105,
           108, 108, 101, 100, 73, 116, 32, 124, 32, 110, 101, 119, 76, 101,
           118, 101, 114, 76, 101, 97, 114, 110, 101, 100, 32, 124, 32, 110,
           101, 120, 116, 77, 117, 116, 97, 116, 105, 111, 110, 32, 124, 10,
           124, 45, 45, 45, 124, 45, 45, 45, 124, 45, 45, 45, 124, 45, 45,
           45, 124, 45, 45, 45, 124, 45, 45, 45, 124, 45, 45, 45, 124, 45,
           45, 45, 124, 45, 45, 45, 124, 45, 45, 45, 124, 45, 45, 45, 124,
           45, 45, 45, 124, 45, 45, 45, 124, 45, 45, 45, 124, 45, 45, 45,
           124, 10>>],
      [path |-> "unknowns.md",  \* text begins "# Unknowns Ledger"
       content |->
         <<35, 32, 85, 110, 107, 110, 111, 119, 110, 115, 32, 76, 101, 100,
           103, 101, 114, 10, 10, 45, 32, 10>>],
      [path |-> "resume_pack.md",  \* text begins "# Resume Pack"
       content |->
         <<35, 32, 82, 101, 115, 117, 109, 101, 32, 80, 97, 99, 107, 10, 10,
           35, 35, 32, 70, 111, 114, 107, 32, 77, 101, 116, 97, 100, 97,
           116, 97, 10, 10, 45, 32, 99, 104, 97, 105, 110, 58, 10, 45, 32,
           99, 104, 97, 105, 110, 73, 100, 58, 10, 45, 32, 82, 80, 67, 32,
           112, 114, 111, 118, 105, 100, 101, 114, 58, 10, 45, 32, 68, 69,
           86, 95, 70, 79, 82, 75, 95, 66, 76, 79, 67, 75, 58, 10, 45, 32,
           80, 82, 79, 77, 79, 84, 73, 79, 78, 95, 70, 79, 82, 75, 95, 66,
           76, 79, 67, 75, 58, 10, 10, 35, 35, 32, 80, 111, 114, 116, 102,
           111, 108, 105, 111, 32, 83, 110, 97, 112, 115, 104, 111, 116, 10,
           10, 45, 32, 116, 97, 114, 103, 101, 116, 32, 115, 116, 97, 116,
           101, 115, 32, 88, 58, 10, 45, 32, 108, 105, 118, 101, 32, 104,
           121, 112, 111, 116, 104, 101, 115, 101, 115, 32, 40, 51, 32, 112,
           101, 114, 32, 88, 41, 58, 10, 10, 35, 35, 32, 76, 97, 115, 116,
           32, 51, 32, 70, 97, 108, 115, 105, 102, 105, 101, 114, 32, 82,
           101, 115, 117, 108, 116, 115, 10, 10, 45, 32, 10, 10, 35, 35, 32,
           78, 101, 120, 116, 32, 51, 32, 77, 117, 116, 97, 116, 105, 111,
           110, 115, 32, 40, 115, 112, 101, 99, 105, 102, 105, 99, 41, 10,
           10, 45, 32, 10, 10, 35, 35, 32, 77, 105, 115, 115, 105, 110, 103,
           32, 72, 97, 114, 100, 32, 82, 101, 113, 117, 105, 114, 101, 109,
           101, 110, 116, 115, 32, 40, 105, 102, 32, 97, 110, 121, 41, 10,
           10, 45, 32, 10>>],
      [path |-> "deployment_snapshot.md",  \* text begins "# Deployment Snapshot"
       content |->
         <<35, 32, 68, 101, 112, 108, 111, 121, 109, 101, 110, 116, 32, 83,
           110, 97, 112, 115, 104, 111, 116, 10, 10, 45, 32, 10>>]
    >>

\* Every file the three write loops go through, in their order.
ScaffoldFiles == ssot_files \o layer_files \o ledgers

PathsOf(files) == {files[i].path : i \in DOMAIN files}

Paths == {ROOT, codegraph_dir, layers_dir, diagrams_dir} \cup PathsOf(ScaffoldFiles)

\* path.parent for every path below the root.
Parent(p) ==
    IF p = codegraph_dir THEN ROOT
    ELSE IF p \in {layers_dir, diagrams_dir} THEN codegraph_dir
    ELSE IF p \in PathsOf(ssot_files) THEN codegraph_dir
    ELSE IF p \in PathsOf(layer_files) THEN layers_dir
    ELSE ROOT

RECURSIVE Ancestors(_)
Ancestors(p) ==
    IF p = ROOT THEN {} ELSE {Parent(p)} \cup Ancestors(Parent(p))

Absent == [kind |-> "absent", content |-> <<>>]
Directory == [kind |-> "dir", content |-> <<>>]
File(text) == [kind |-> "file", content |-> text]

USER_TEXT ==  \* "my notes"
    <<109, 121, 32, 110, 111, 116, 101, 115>>

\* Path.exists(): true of a file and of a directory alike.
Exists(f, p) == f[p].kind # "absent"

\* os.mkdir once the parents are settled.
MkdirIn(st, p) ==
    IF st.raised THEN st ELSE [st EXCEPT !.fs[p] = Directory]

\* Path.mkdir(parents=True, exist_ok=True) on the state st of a run.  An
\* existing directory is left alone; an existing file raises
\* FileExistsError; a file in the place of the parent raises
\* NotADirectoryError; missing parents are made first.  The directory
\* above the workspace root is taken to exist.
RECURSIVE Mkdir(_, _)
Mkdir(st, p) ==
    IF st.raised THEN st
    ELSE IF st.fs[p].kind = "dir" THEN st
    ELSE IF st.fs[p].kind = "file" THEN [st EXCEPT !.raised = TRUE]
    ELSE IF p = ROOT THEN [st EXCEPT !.fs[p] = Directory]
    ELSE MkdirIn(Mkdir(st, Parent(p)), p)

\* path.write_text(content) followed by created.append(path).
WriteText(st, file) ==
    IF st.raised THEN st
    ELSE [st EXCEPT !.fs[file.path] = File(file.content),
                    !.created = Append(@, file.path)]

\* A writer that does not look whether the path exists.
write_always(st, file) == WriteText(Mkdir(st, Parent(file.path)), file)

\* _write_if_missing, with the caller's created.append on True.
write_if_missing(st, file) ==
    IF st.raised THEN st
    ELSE IF Exists(st.fs, file.path) THEN st
    ELSE WriteText(Mkdir(st, Parent(file.path)), file)

\* One of the three loops "for name, content in ...items()".
RECURSIVE WriteAll(_, _, _)
WriteAll(st, files, i) ==
    IF i > Len(files) THEN st
    ELSE WriteAll(write_if_missing(st, files[i]), files, i + 1)

\* created += [p for p in dirs if not p.exists()]
MissingDirs(f) == SelectSeq(dirs, LAMBDA p : ~Exists(f, p))

\* The three mkdir calls, after the missing directories were noted.
MakeDirs(f) ==
    Mkdir(Mkdir(Mkdir([fs |-> f, raised |-> FALSE, created |-> MissingDirs(f)],
                      codegraph_dir),
                layers_dir),
          diagrams_dir)

NO_CHANGES == "No changes (all scaffold files already exist)."
SCAFFOLD_CREATED == "Scaffold created:"

\* "- " followed by the path relative to the root.
BulletFor(p) == <<"- ", p>>

\* What the run prints and how it ends.  An exception leaves main before
\* anything is printed.
Report(st) ==
    IF st.raised THEN [outcome |-> "exception", printed |-> <<>>]
    ELSE IF st.created = <<>>
    THEN [outcome |-> "returned", printed |-> <<NO_CHANGES>>]
    ELSE [outcome |-> "returned",
          printed |-> <<SCAFFOLD_CREATED>>
                      \o [i \in DOMAIN st.created |-> BulletFor(st.created[i])]]

\* main() on the file system f, up to the report.
ScaffoldMain(f) ==
    WriteAll(WriteAll(WriteAll(MakeDirs(f), ssot_files, 1), layer_files, 1),
             ledgers, 1)

\* The subsets of S with at most n elements.
RECURSIVE SubsetsUpTo(_, _)
SubsetsUpTo(S, n) ==
    IF n = 0 THEN {{}}
    ELSE SubsetsUpTo(S, n - 1)
         \cup {T \cup {p} : T \in SubsetsUpTo(S, n - 1), p \in S}

\* The file system in which the paths of sel exist, as a file with the
\* user's text or as a directory, and so do the directories above them.
BuildFs(sel) ==
    [p \in Paths |->
        IF \E q \in DOMAIN sel : p \in Ancestors(q) THEN Directory
        ELSE IF p \notin DOMAIN sel THEN Absent
        ELSE IF sel[p] = "dir" THEN Directory
        ELSE File(USER_TEXT)]

Preexisting ==
    UNION {[S -> {"file", "dir"}] : S \in SubsetsUpTo(Paths, MaxPreexisting)}

InitScaffold ==
    /\ IdleSchemaParser
    /\ schema_lines = <<>>
    /\ nodes_lines = <<>>
    /\ edges_lines = <<>>
    /\ IdleNodeParsers
    /\ IdleValidator
    /\ IdleTriage
    /\ scaffold_runs = <<>>
    /\ \E sel \in Preexisting : fs = BuildFs(sel)

RunScaffold(st) ==
    /\ fs' = st.fs
    /\ scaffold_runs' = Append(scaffold_runs, Report(st))
    /\ UNCHANGED <<schema_lines, nodes_lines, edges_lines, line_idx, section,
                   node_types, edge_types, v_nodes, t_nodes, validation, cli,
                   out>>

\* The scaffolder is run on the workspace.
FirstRun ==
    /\ scaffold_runs = <<>>
    /\ RunScaffold(ScaffoldMain(fs))

\* It is run again, nothing having touched the workspace in between.
SecondRun ==
    /\ Len(scaffold_runs) = 1
    /\ RunScaffold(ScaffoldMain(fs))

NextScaffold == FirstRun \/ SecondRun

SpecScaffold == InitScaffold /\ [][NextScaffold]_vars

\* What a run puts at a path that was missing.
Scaffolded(p) ==
    IF p \in {ROOT, codegraph_dir, layers_dir, diagrams_dir} THEN Directory
    ELSE File(ScaffoldFiles[CHOOSE i \in DOMAIN ScaffoldFiles :
                               ScaffoldFiles[i].path = p].content)

\* A step that is a run of the scaffolder.
IsRun == scaffold_runs' # scaffold_runs

ThisRun == scaffold_runs'[Len(scaffold_runs')]

\* Whatever existed before the run is there unchanged after it, and
\* whatever the run added is a scaffold directory or a scaffold file
\* with its starting text.
AdditiveOnly ==
    \A p \in Paths :
        /\ Exists(fs, p) => fs'[p] = fs[p]
        /\ ~Exists(fs, p) /\ Exists(fs', p) => fs'[p] = Scaffolded(p)

\* Something other than a directory sits where the run needs one.
DirectoryBlocked ==
    \E p \in {ROOT, codegraph_dir, layers_dir, diagrams_dir} :
        fs[p].kind = "file"

\* C9 (as stated): from any file-system state a run leaves every
\* existing file as it is and only creates scaffold files and
\* directories that were missing, and a second run immediately after a
\* first one creates nothing and reports no changes.
C9_SecondRunReportsNoChanges ==
    [][IsRun =>
          /\ AdditiveOnly
          /\ scaffold_runs # <<>> =>
                 /\ fs' = fs
                 /\ ThisRun.printed = <<NO_CHANGES>>]_vars

\* C9 (amended): every run leaves what exists as it is and only adds
\* missing scaffold entries.  A run ends with an exception and prints
\* nothing exactly when the root, codegraph, codegraph/layers or
\* codegraph/diagrams exists as a file; otherwise it completes with
\* every scaffold path in place.  A second run creates nothing; it
\* reports no changes when the first run completed, and fails as the
\* first did when the first failed.
C9_AdditiveAndIdempotentOnceCompleted ==
    [][IsRun =>
          /\ AdditiveOnly
          /\ ThisRun.outcome = "exception" <=> DirectoryBlocked
          /\ ThisRun.outcome = "exception" => ThisRun.printed = <<>>
          /\ ThisRun.outcome = "returned" =>
                 \A p \in Paths : Exists(fs', p)
          /\ scaffold_runs # <<>> =>
                 /\ fs' = fs
                 /\ ThisRun.outcome = scaffold_runs[1].outcome
                 /\ scaffold_runs[1].outcome = "returned" =>
                        ThisRun.printed = <<NO_CHANGES>>]_vars

\* C9 witness: a first run filled in a workspace that already held a
\* file of the user's, the file is still there with its text, and the
\* second run reported no changes.
C9_Witness ==
    /\ Len(scaffold_runs) = 2
    /\ scaffold_runs[1].outcome = "returned"
    /\ scaffold_runs[1].printed[1] = SCAFFOLD_CREATED
    /\ scaffold_runs[2].printed = <<NO_CHANGES>>
    /\ \E p \in PathsOf(ScaffoldFiles) : fs[p] = File(USER_TEXT)

====
